---- MODULE Spec2Model ----
(***************************************************************************)
(* Model of scripts/debug-fb-www.js: the promise chain                     *)
(*   readComponentsList().then(compileFile).then(report).catch(exit 1)     *)
(* with the module state errorsCaptured, components and                    *)
(* uniqueEvaluatedComponents, the error handler handed to the compiler and *)
(* the recursive walk printReactEvaluationGraph, unfolded on an explicit   *)
(* stack of pending calls.                                                 *)
(*                                                                         *)
(* Strings the program takes apart (the component list file, component     *)
(* names) are sequences of one-character strings.  The components Map is a *)
(* sequence of key/value entries in insertion order.  A Map value is the   *)
(* string "missing" (isArray = FALSE) or an array of strings.              *)
(***************************************************************************)
EXTENDS Integers, Sequences, FiniteSets, TLC

VARIABLES
  pc,                         \* position in the promise chain
  componentsFile,             \* fb-www/components.txt: present?, contents
  outputFile,                 \* fb-www/output.js
  components,                 \* the Map `components`
  uniqueEvaluatedComponents,  \* the counter of the same name
  errorsCaptured,             \* the array of the same name
  result,                     \* what compileFile resolved with
  stack,                      \* pending calls of printReactEvaluationGraph
  stdout,                     \* console.log, in order
  stderr,                     \* console.error, in order
  exitCode,                   \* -1 while running, then the exit code
  e,                          \* the rejection travelling down the chain
  received,                   \* diagnostics the compiler handed to errorHandler
  lastReturn,                 \* what errorHandler last returned to the compiler
  failInstructed,             \* the compiler was told "Fail"
  stages                      \* the stages run so far, with their outcome

vars == << pc, componentsFile, outputFile, components, uniqueEvaluatedComponents,
           errorsCaptured, result, stack, stdout, stderr, exitCode, e,
           received, lastReturn, failInstructed, stages >>

----------------------------------------------------------------------------
(* Bounds *)

MaxFileLen == 3      \* characters in components.txt
MaxDiags == 2        \* diagnostics the compiler emits in one invocation
MaxLeaves == 3       \* leaf records in an evaluation tree (walk specification)
MaxSeconds == 1      \* elapsed whole seconds

----------------------------------------------------------------------------
(* Values *)

NL == "\n"
FileAlphabet == {"F", "B", NL}
Foo == <<"F">>
Bar == <<"B">>

Missing == [isArray |-> FALSE, str |-> "missing", items |-> <<>>]
ArrayOf(items) == [isArray |-> TRUE, str |-> "", items |-> items]

Undefined == [type |-> "undefined"]
Arr(elems) == [type |-> "array", elems |-> elems]
Leaf(name, status, message, children) ==
  [type |-> "object", name |-> name, status |-> status, message |-> message,
   children |-> children]

SeqsUpTo(S, n) == UNION {[1..k -> S] : k \in 0..n}

FileContents == SeqsUpTo(FileAlphabet, MaxFileLen)
Absent == [exists |-> FALSE, contents |-> <<>>]
Files == {Absent} \cup {[exists |-> TRUE, contents |-> c] : c \in FileContents}

Severities == {"Information", "Warning", "RecoverableError", "FatalError"}
Diagnostics == {[severity |-> s, message |-> "diag"] : s \in Severities}

\* name/status/message of the leaf records the compiler reports
Labels ==
  { [name |-> Foo, status |-> "INLINED", message |-> ""],
    [name |-> Foo, status |-> "BAIL-OUT", message |-> "m"],
    [name |-> Bar, status |-> "NEW_TREE", message |-> ""] }

RECURSIVE NodesWith(_)
RECURSIVE ListsWith(_)
LeavesWith(n) ==
  {Leaf(l.name, l.status, l.message, c) : l \in Labels, c \in NodesWith(n - 1)}
ListsWith(n) ==
  IF n = 0 THEN {<<>>}
  ELSE UNION {{<<h>> \o t : h \in LeavesWith(k), t \in ListsWith(n - k)} : k \in 1..n}
NodesWith(n) ==
  IF n = 0 THEN {Undefined, Arr(<<>>)}
  ELSE LeavesWith(n) \cup {Arr(s) : s \in ListsWith(n)}

\* every tree of at most MaxLeaves leaf records
Trees == UNION {NodesWith(n) : n \in 0..MaxLeaves}

\* the trees the compiler returns in the whole-run specification
SampleTrees ==
  { Arr(<<>>),
    Arr(<<Leaf(Foo, "INLINED", "", Arr(<<>>))>>),
    Arr(<<Leaf(Foo, "INLINED", "", Arr(<<Leaf(Foo, "BAIL-OUT", "m", Arr(<<>>))>>)),
          Leaf(Bar, "NEW_TREE", "", Arr(<<>>))>>),
    Arr(<<Leaf(Bar, "UNKNOWN_TYPE", "", Leaf(Foo, "INLINED", "", Undefined))>>) }

StatsOf(tree) ==
  [evaluatedRootNodes |-> tree, componentsEvaluated |-> 2,
   inlinedComponents |-> 1, optimizedTrees |-> 1]
NoResult == [stats |-> StatsOf(Undefined), code |-> "none"]

OldOutput == "old output"
Truncated == ""
GeneratedCode == "generated code"

----------------------------------------------------------------------------
(* The Map `components` *)

MapHas(m, k) == \E i \in 1..Len(m) : m[i].key = k
MapGet(m, k) == m[CHOOSE i \in 1..Len(m) : m[i].key = k].value
MapSet(m, k, v) ==
  IF MapHas(m, k)
  THEN [i \in 1..Len(m) |-> IF m[i].key = k THEN [key |-> k, value |-> v] ELSE m[i]]
  ELSE Append(m, [key |-> k, value |-> v])

----------------------------------------------------------------------------
(* readComponentsList *)

\* String.prototype.split("\n")
RECURSIVE Split(_)
Split(s) ==
  IF \A i \in 1..Len(s) : s[i] # NL THEN <<s>>
  ELSE LET i == CHOOSE j \in 1..Len(s) : s[j] = NL /\ \A k \in 1..(j - 1) : s[k] # NL
       IN <<SubSeq(s, 1, i - 1)>> \o Split(SubSeq(s, i + 1, Len(s)))

\* for (let componentName of componentNames) components.set(componentName, "missing")
RECURSIVE SetAllMissing(_, _)
SetAllMissing(m, names) ==
  IF names = <<>> THEN m
  ELSE SetAllMissing(MapSet(m, Head(names), Missing), Tail(names))

LoadComponents(file) ==
  IF file.exists THEN SetAllMissing(<<>>, Split(file.contents)) ELSE <<>>

----------------------------------------------------------------------------
(* prepackOptions.errorHandler *)

\* errorsCaptured.push(diag)
errorHandlerCapture(errors, diag) == Append(errors, diag)

errorHandlerRecoversAll(diag) == "Recover"
errorHandlerFailsWarning(diag) ==
  IF diag.severity = "Information" THEN "Recover" ELSE "Fail"
errorHandlerResult(diag) ==
  IF diag.severity = "Information" THEN "Recover"
  ELSE IF diag.severity # "Warning" THEN "Fail"
  ELSE "Recover"

errorHandlerLog(diag, out) ==
  IF diag.severity = "Information"
  THEN Append(out, [kind |-> "diag", text |-> diag.message])
  ELSE out

----------------------------------------------------------------------------
(* Promise chain plumbing *)

Stage(name, ok) == [stage |-> name, ok |-> ok]
Error(name) == [name |-> name]
NoError == Error("none")

\* a rejected promise skips every .then down to the .catch
Rejected == "catch"

Init ==
  /\ pc = "readComponentsList"
  /\ componentsFile \in Files
  /\ outputFile = OldOutput
  /\ components = <<>>
  /\ uniqueEvaluatedComponents = 0
  /\ errorsCaptured = <<>>
  /\ result = NoResult
  /\ stack = <<>>
  /\ stdout = <<>>
  /\ stderr = <<>>
  /\ exitCode = -1
  /\ e = NoError
  /\ received = <<>>
  /\ lastReturn = "none"
  /\ failInstructed = FALSE
  /\ stages = <<>>

\* readComponentsList: the file is absent
ListAbsent ==
  /\ pc = "readComponentsList"
  /\ ~componentsFile.exists
  /\ pc' = "readInput"
  /\ stages' = Append(stages, Stage("list-load", TRUE))
  /\ UNCHANGED << componentsFile, outputFile, components, uniqueEvaluatedComponents,
                  errorsCaptured, result, stack, stdout, stderr, exitCode, e,
                  received, lastReturn, failInstructed >>

\* readComponentsList: the file is read and every name registered
ListLoaded ==
  /\ pc = "readComponentsList"
  /\ componentsFile.exists
  /\ components' = LoadComponents(componentsFile)
  /\ pc' = "readInput"
  /\ stages' = Append(stages, Stage("list-load", TRUE))
  /\ UNCHANGED << componentsFile, outputFile, uniqueEvaluatedComponents,
                  errorsCaptured, result, stack, stdout, stderr, exitCode, e,
                  received, lastReturn, failInstructed >>

\* readComponentsList: readFile rejects
ListReadFails ==
  /\ pc = "readComponentsList"
  /\ componentsFile.exists
  /\ pc' = Rejected
  /\ e' = Error("EIO components.txt")
  /\ stages' = Append(stages, Stage("list-load", FALSE))
  /\ UNCHANGED << componentsFile, outputFile, components, uniqueEvaluatedComponents,
                  errorsCaptured, result, stack, stdout, stderr, exitCode,
                  received, lastReturn, failInstructed >>

\* compileFile: readFile(inputPath) resolves
InputRead ==
  /\ pc = "readInput"
  /\ pc' = "prepackSources"
  /\ stages' = Append(stages, Stage("input-read", TRUE))
  /\ UNCHANGED << componentsFile, outputFile, components, uniqueEvaluatedComponents,
                  errorsCaptured, result, stack, stdout, stderr, exitCode, e,
                  received, lastReturn, failInstructed >>

\* compileFile: readFile(inputPath) rejects
InputReadFails ==
  /\ pc = "readInput"
  /\ pc' = Rejected
  /\ e' = Error("ENOENT input.js")
  /\ stages' = Append(stages, Stage("input-read", FALSE))
  /\ UNCHANGED << componentsFile, outputFile, components, uniqueEvaluatedComponents,
                  errorsCaptured, result, stack, stdout, stderr, exitCode,
                  received, lastReturn, failInstructed >>

----------------------------------------------------------------------------
(* compileSource: the compiler, then the catch block *)

\* prepackSources reports one diagnostic through prepackOptions.errorHandler
prepackSourcesDiagnostic ==
  /\ pc = "prepackSources"
  /\ Len(received) < MaxDiags
  /\ \E diag \in Diagnostics :
       /\ received' = Append(received, diag)
       /\ errorsCaptured' = errorHandlerCapture(errorsCaptured, diag)
       /\ stdout' = errorHandlerLog(diag, stdout)
       /\ lastReturn' = errorHandlerResult(diag)
       /\ failInstructed' = (failInstructed \/ errorHandlerResult(diag) = "Fail")
  /\ UNCHANGED << pc, componentsFile, outputFile, components,
                  uniqueEvaluatedComponents, result, stack, stderr, exitCode, e,
                  stages >>

\* prepackSources throws: it honours a "Fail", or fails for a reason of its own
prepackSourcesThrows ==
  /\ pc = "prepackSources"
  /\ pc' = "compileSourceCatch"
  /\ e' = Error(IF failInstructed THEN "FatalError" ELSE "InvariantError")
  /\ UNCHANGED << componentsFile, outputFile, components, uniqueEvaluatedComponents,
                  errorsCaptured, result, stack, stdout, stderr, exitCode,
                  received, lastReturn, failInstructed, stages >>

\* prepackSources returns the serialized code and the react statistics
prepackSourcesReturns ==
  /\ pc = "prepackSources"
  /\ ~failInstructed
  /\ \E tree \in SampleTrees :
       result' = [stats |-> StatsOf(tree), code |-> GeneratedCode]
  /\ pc' = "writeOutput"
  /\ stages' = Append(stages, Stage("compile", TRUE))
  /\ UNCHANGED << componentsFile, outputFile, components, uniqueEvaluatedComponents,
                  errorsCaptured, stack, stdout, stderr, exitCode, e,
                  received, lastReturn, failInstructed >>

\* errorsCaptured.forEach(error => console.error(error))
DumpReversed(errors) ==
  [i \in 1..Len(errors) |-> [kind |-> "captured", diag |-> errors[Len(errors) + 1 - i]]]
Dump(errors) == [i \in 1..Len(errors) |-> [kind |-> "captured", diag |-> errors[i]]]

\* throw e, out of the catch block and so out of compileFile
RethrowSwallowed == "writeOutput"
Rethrow == Rejected

compileSourceCatch ==
  /\ pc = "compileSourceCatch"
  /\ stderr' = stderr \o Dump(errorsCaptured)
  /\ pc' = Rethrow
  /\ stages' = Append(stages, Stage("compile", FALSE))
  /\ UNCHANGED << componentsFile, outputFile, components, uniqueEvaluatedComponents,
                  errorsCaptured, result, stack, stdout, exitCode, e,
                  received, lastReturn, failInstructed >>

----------------------------------------------------------------------------
(* compileFile: writeFile(outputPath, code) *)

OutputWritten ==
  /\ pc = "writeOutput"
  /\ outputFile' = result.code
  /\ pc' = "report"
  /\ stages' = Append(stages, Stage("output-write", TRUE))
  /\ UNCHANGED << componentsFile, components, uniqueEvaluatedComponents,
                  errorsCaptured, result, stack, stdout, stderr, exitCode, e,
                  received, lastReturn, failInstructed >>

\* writeFile rejects; the file is as it was, or was truncated when opened
OutputWriteFails ==
  /\ pc = "writeOutput"
  /\ outputFile' \in {outputFile, Truncated}
  /\ pc' = Rejected
  /\ e' = Error("EACCES output.js")
  /\ stages' = Append(stages, Stage("output-write", FALSE))
  /\ UNCHANGED << componentsFile, components, uniqueEvaluatedComponents,
                  errorsCaptured, result, stack, stdout, stderr, exitCode,
                  received, lastReturn, failInstructed >>

----------------------------------------------------------------------------
(* printReactEvaluationGraph *)

\* String.prototype.toLowerCase on the statuses the compiler reports
ToLowerCase(s) ==
  CASE s = "INLINED" -> "inlined"
    [] s = "BAIL-OUT" -> "bail-out"
    [] s = "NEW_TREE" -> "new_tree"
    [] s = "UNKNOWN_TYPE" -> "unknown_type"
    [] OTHER -> s

MessageSuffix(message) == IF message # "" THEN ": " \o message ELSE ""

NameColor(status) ==
  IF status = "inlined" THEN "green"
  ELSE IF status = "unsupported_completion" \/ status = "unknown_type"
          \/ status = "bail-out" THEN "red"
  ELSE "yellow"

\* "- name (status: message)"
LineLength(name, text) == 2 + Len(name) + 2 + Len(text) + 1

\* the spaces String.prototype.padStart(targetLength) puts before a string
PadStart(length, targetLength) ==
  IF targetLength > length THEN targetLength - length ELSE 0

Line(name, status, message, depth) ==
  LET text == status \o message
  IN [kind |-> "node", name |-> name, color |-> NameColor(status), text |-> text,
      status |-> status,
      pad |-> PadStart(LineLength(name, text), LineLength(name, text) + depth)]

\* the value of components.get(name) after lines 113-119
TrackedValueReplacing(currentStatus, status) ==
  IF currentStatus = Missing THEN ArrayOf(<<currentStatus.str>>)
  ELSE IF currentStatus.isArray THEN ArrayOf(<<status>>)
  ELSE currentStatus
TrackedValue(currentStatus, status) ==
  IF currentStatus = Missing THEN ArrayOf(<<currentStatus.str>>)
  ELSE IF currentStatus.isArray THEN ArrayOf(Append(currentStatus.items, status))
  ELSE currentStatus

\* uniqueEvaluatedComponents after lines 113-119
CounterPerOccurrence(currentStatus, counter) == counter + 1
Counter(currentStatus, counter) ==
  IF currentStatus = Missing THEN counter + 1 ELSE counter

\* depth + 2
ChildDepthPerLevelOne(depth) == depth + 1
ChildDepth(depth) == depth + 2

Frame(node, depth) == [node |-> node, depth |-> depth]

\* the .then callback up to the call printReactEvaluationGraph(root, 0)
ReportStarts ==
  /\ pc = "report"
  /\ stdout' = stdout \o << [kind |-> "header", text |-> "=== Compilation Complete ==="],
                            [kind |-> "header", text |-> "Evaluated Tree:"] >>
  /\ stack' = <<Frame(result.stats.evaluatedRootNodes, 0)>>
  /\ pc' = "walk"
  /\ UNCHANGED << componentsFile, outputFile, components, uniqueEvaluatedComponents,
                  errorsCaptured, result, stderr, exitCode, e,
                  received, lastReturn, failInstructed, stages >>

\* Array.isArray(evaluatedRootNode): one call per child, at the same depth
VisitArray ==
  /\ pc = "walk"
  /\ stack # <<>>
  /\ Head(stack).node.type = "array"
  /\ LET elems == Head(stack).node.elems
         depth == Head(stack).depth
     IN stack' = [i \in 1..Len(elems) |-> Frame(elems[i], depth)] \o Tail(stack)
  /\ UNCHANGED << pc, componentsFile, outputFile, components,
                  uniqueEvaluatedComponents, errorsCaptured, result, stdout, stderr,
                  exitCode, e, received, lastReturn, failInstructed, stages >>

\* a leaf record: track it, print its line, then call on its children
VisitLeaf ==
  /\ pc = "walk"
  /\ stack # <<>>
  /\ Head(stack).node.type = "object"
  /\ LET node == Head(stack).node
         depth == Head(stack).depth
         status == ToLowerCase(node.status)
         message == MessageSuffix(node.message)
         name == node.name
     IN /\ IF MapHas(components, name)
           THEN LET currentStatus == MapGet(components, name)
                IN /\ uniqueEvaluatedComponents' =
                        Counter(currentStatus, uniqueEvaluatedComponents)
                   /\ components' =
                        MapSet(components, name, TrackedValue(currentStatus, status))
           ELSE UNCHANGED << components, uniqueEvaluatedComponents >>
        /\ stdout' = Append(stdout, Line(name, status, message, depth))
        /\ stack' = <<Frame(node.children, ChildDepth(depth))>> \o Tail(stack)
  /\ UNCHANGED << pc, componentsFile, outputFile, errorsCaptured, result, stderr,
                  exitCode, e, received, lastReturn, failInstructed, stages >>

\* evaluatedRootNode is undefined: reading .status throws a TypeError
VisitUndefined ==
  /\ pc = "walk"
  /\ stack # <<>>
  /\ Head(stack).node.type = "undefined"
  /\ stack' = <<>>
  /\ pc' = Rejected
  /\ e' = Error("TypeError")
  /\ stages' = Append(stages, Stage("render", FALSE))
  /\ UNCHANGED << componentsFile, outputFile, components, uniqueEvaluatedComponents,
                  errorsCaptured, result, stdout, stderr, exitCode,
                  received, lastReturn, failInstructed >>

----------------------------------------------------------------------------
(* the rest of the .then callback, and the .catch *)

MarkInverted(status) == IF status = Missing THEN "check" ELSE "cross"
Mark(status) == IF status = Missing THEN "cross" ELSE "check"

StatusLines(m) ==
  IF Len(m) > 0
  THEN <<[kind |-> "header", text |-> "=== Status ==="]>>
       \o [i \in 1..Len(m) |->
             [kind |-> "status", mark |-> Mark(m[i].value), name |-> m[i].key]]
  ELSE <<>>

SummaryLines(m, counter, stats, timeTaken) ==
  <<[kind |-> "header", text |-> "=== Summary ==="]>>
  \o (IF Len(m) > 0
      THEN <<[kind |-> "summary", label |-> "Optimized Components",
              value |-> <<counter, Len(m)>>]>>
      ELSE <<>>)
  \o << [kind |-> "summary", label |-> "Optimized Nodes",
         value |-> <<stats.componentsEvaluated>>],
        [kind |-> "summary", label |-> "Inlined Nodes",
         value |-> <<stats.inlinedComponents>>],
        [kind |-> "summary", label |-> "Optimized Trees",
         value |-> <<stats.optimizedTrees>>],
        [kind |-> "summary", label |-> "Compile time", value |-> <<timeTaken>>] >>

\* printReactEvaluationGraph has returned: the status and summary sections
Summary ==
  /\ pc = "walk"
  /\ stack = <<>>
  /\ \E timeTaken \in 0..MaxSeconds :
       stdout' = stdout \o StatusLines(components)
                        \o SummaryLines(components, uniqueEvaluatedComponents,
                                        result.stats, timeTaken)
  /\ pc' = "done"
  /\ stages' = stages \o <<Stage("render", TRUE), Stage("summary", TRUE)>>
  /\ UNCHANGED << componentsFile, outputFile, components, uniqueEvaluatedComponents,
                  errorsCaptured, result, stack, stderr, exitCode, e,
                  received, lastReturn, failInstructed >>

\* nothing is left to run: the process ends with code 0
ProcessEnds ==
  /\ pc = "done"
  /\ pc' = "exited"
  /\ exitCode' = 0
  /\ UNCHANGED << componentsFile, outputFile, components, uniqueEvaluatedComponents,
                  errorsCaptured, result, stack, stdout, stderr, e,
                  received, lastReturn, failInstructed, stages >>

\* process.exit(1)
CatchExitCode == 1

\* .catch(e => { console.error(e.natickStack || e.stack); process.exit(1); })
TopLevelCatch ==
  /\ pc = "catch"
  /\ stderr' = Append(stderr, [kind |-> "trace", error |-> e])
  /\ exitCode' = CatchExitCode
  /\ pc' = "exited"
  /\ UNCHANGED << componentsFile, outputFile, components, uniqueEvaluatedComponents,
                  errorsCaptured, result, stack, stdout, e,
                  received, lastReturn, failInstructed, stages >>

----------------------------------------------------------------------------
(* Specifications *)

Next ==
  \/ ListAbsent
  \/ ListLoaded
  \/ ListReadFails
  \/ InputRead
  \/ InputReadFails
  \/ prepackSourcesDiagnostic
  \/ prepackSourcesThrows
  \/ prepackSourcesReturns
  \/ compileSourceCatch
  \/ OutputWritten
  \/ OutputWriteFails
  \/ ReportStarts
  \/ VisitArray
  \/ VisitLeaf
  \/ VisitUndefined
  \/ Summary
  \/ ProcessEnds
  \/ TopLevelCatch

\* the whole run
Spec == Init /\ [][Next]_vars

\* the component lists of the walk specification
WalkFiles ==
  { Absent,
    [exists |-> TRUE, contents |-> <<"F">>],
    [exists |-> TRUE, contents |-> <<"F", NL, "B">>],
    [exists |-> TRUE, contents |-> <<"B", NL, "F", NL>>] }

\* compileFile has resolved, with any tree of at most MaxLeaves leaf records
InitWalk ==
  /\ pc = "report"
  /\ componentsFile \in WalkFiles
  /\ outputFile = GeneratedCode
  /\ components = LoadComponents(componentsFile)
  /\ uniqueEvaluatedComponents = 0
  /\ errorsCaptured = <<>>
  /\ \E tree \in Trees : result = [stats |-> StatsOf(tree), code |-> GeneratedCode]
  /\ stack = <<>>
  /\ stdout = <<>>
  /\ stderr = <<>>
  /\ exitCode = -1
  /\ e = NoError
  /\ received = <<>>
  /\ lastReturn = "none"
  /\ failInstructed = FALSE
  /\ stages = << Stage("list-load", TRUE), Stage("input-read", TRUE),
                 Stage("compile", TRUE), Stage("output-write", TRUE) >>

NextWalk ==
  \/ ReportStarts
  \/ VisitArray
  \/ VisitLeaf
  \/ VisitUndefined
  \/ Summary
  \/ ProcessEnds
  \/ TopLevelCatch

\* the report on every tree
SpecWalk == InitWalk /\ [][NextWalk]_vars

----------------------------------------------------------------------------
(* What the properties speak of *)

Range(s) == {s[i] : i \in 1..Len(s)}
IsNodeLine(l) == l.kind = "node"
IsStatusLine(l) == l.kind = "status"
NodeLines(out) == SelectSeq(out, IsNodeLine)
StatusLinesOf(out) == SelectSeq(out, IsStatusLine)

Root == result.stats.evaluatedRootNodes

\* the leaf records of a tree in document order, each with the number of
\* `children` links between the root and it
RECURSIVE LeavesInOrder(_, _)
RECURSIVE LeavesOfAll(_, _)
LeavesInOrder(node, links) ==
  CASE node.type = "undefined" -> <<>>
    [] node.type = "array" -> LeavesOfAll(node.elems, links)
    [] node.type = "object" ->
         <<[name |-> node.name, status |-> node.status, links |-> links]>>
         \o LeavesInOrder(node.children, links + 1)
LeavesOfAll(nodes, links) ==
  IF nodes = <<>> THEN <<>>
  ELSE LeavesInOrder(Head(nodes), links) \o LeavesOfAll(Tail(nodes), links)

\* does some `children` field (not the root) hold no value
RECURSIVE HasAbsentChildren(_)
HasAbsentChildren(node) ==
  CASE node.type = "undefined" -> FALSE
    [] node.type = "array" -> \E i \in 1..Len(node.elems) : HasAbsentChildren(node.elems[i])
    [] node.type = "object" ->
         node.children.type = "undefined" \/ HasAbsentChildren(node.children)

LeafNames(node) == {l.name : l \in Range(LeavesInOrder(node, 0))}

\* the lower-cased statuses a tree holds for a name, in document order
RECURSIVE StatusesOf(_, _)
StatusesOf(leaves, name) ==
  IF leaves = <<>> THEN <<>>
  ELSE (IF Head(leaves).name = name THEN <<ToLowerCase(Head(leaves).status)>> ELSE <<>>)
       \o StatusesOf(Tail(leaves), name)

\* the names of the component list, each once, in order of first appearance
RECURSIVE FirstAppearances(_, _)
FirstAppearances(names, seen) ==
  IF names = <<>> THEN <<>>
  ELSE IF Head(names) \in seen THEN FirstAppearances(Tail(names), seen)
  ELSE <<Head(names)>> \o FirstAppearances(Tail(names), seen \cup {Head(names)})

ListedNames ==
  IF componentsFile.exists THEN FirstAppearances(Split(componentsFile.contents), {})
  ELSE <<>>

Failed(stage) == Stage(stage, FALSE) \in Range(stages)
Succeeded(stage) == Stage(stage, TRUE) \in Range(stages)
WalkReturned == Succeeded("render")
Recoverable(diag) == diag.severity \in {"Information", "Warning"}

----------------------------------------------------------------------------
(* C1 *)

\* C1: once the walk has returned, every tracked name that occurs in the tree
\* maps to exactly the lower-cased statuses observed for it, in visit order.
C1_StatusesAsObserved ==
  WalkReturned =>
    \A i \in 1..Len(components) :
      components[i].key \in LeafNames(Root) =>
        /\ components[i].value.isArray
        /\ components[i].value.items =
             StatusesOf(LeavesInOrder(Root, 0), components[i].key)

----------------------------------------------------------------------------
(* C2 *)

NotMissing == {i \in 1..Len(components) : components[i].value # Missing}

C2_CounterIsNotMissing ==
  /\ uniqueEvaluatedComponents = Cardinality(NotMissing)
  /\ uniqueEvaluatedComponents <= Len(components)

\* this step prints the line of a listed name no earlier line names
FirstTrackedOccurrence ==
  /\ Len(NodeLines(stdout')) = Len(NodeLines(stdout)) + 1
  /\ LET name == NodeLines(stdout')[Len(NodeLines(stdout'))].name
     IN /\ name \in Range(ListedNames)
        /\ \A j \in 1..Len(NodeLines(stdout)) : NodeLines(stdout)[j].name # name

C2_CounterStep ==
  uniqueEvaluatedComponents' =
    uniqueEvaluatedComponents + (IF FirstTrackedOccurrence THEN 1 ELSE 0)

\* C2: the counter goes up by one exactly on the first occurrence of a tracked
\* name and is otherwise unchanged; it always equals the number of entries that
\* are no longer "missing" and never exceeds the number of entries.
C2_CounterOncePerName == [](C2_CounterIsNotMissing) /\ [][C2_CounterStep]_vars

C2_Witness ==
  /\ pc = "done"
  /\ uniqueEvaluatedComponents = 1
  /\ \E i \in 1..Len(components) : Len(components[i].value.items) = 2
  /\ \E l \in Range(NodeLines(stdout)) : l.name \notin Range(ListedNames)

----------------------------------------------------------------------------
(* C3 *)

Extends(old, new) == new = old \/ \E s \in Range(new) : new = Append(old, s)

C3_EntriesStep ==
  /\ Len(components') = Len(components)
  /\ \A i \in 1..Len(components) :
       /\ components'[i].key = components[i].key
       /\ components[i].value # Missing =>
            /\ components'[i].value # Missing
            /\ components'[i].value.isArray
            /\ Extends(components[i].value.items, components'[i].value.items)

\* C3: after the list is loaded the keys never change, and an entry that has
\* left "missing" never returns to it: its sequence is only appended to.
C3_OnlyAccumulates == [][pc # "readComponentsList" => C3_EntriesStep]_vars

C3_Witness ==
  /\ pc = "exited"
  /\ Len(components) = 2
  /\ \E i \in 1..Len(components) : Len(components[i].value.items) = 2
  /\ \E i \in 1..Len(components) : Len(components[i].value.items) = 1

----------------------------------------------------------------------------
(* C4 *)

C4_HandlerStep ==
  received' # received =>
    LET diag == received'[Len(received')]
    IN /\ errorsCaptured' = Append(errorsCaptured, diag)
       /\ lastReturn' = (IF Recoverable(diag) THEN "Recover" ELSE "Fail")
       /\ stdout' = (IF diag.severity = "Information"
                     THEN Append(stdout, [kind |-> "diag", text |-> diag.message])
                     ELSE stdout)

\* C4: the capture list is always the diagnostics received so far, in order; the
\* handler returns "Recover" and prints the message for Information, "Recover"
\* and prints nothing for Warning, "Fail" and prints nothing for anything else.
C4_HandlerContract == [](errorsCaptured = received) /\ [][C4_HandlerStep]_vars

C4_Witness ==
  /\ Len(received) = 2
  /\ received[1].severity = "Warning"
  /\ received[2].severity = "Information"
  /\ lastReturn = "Recover"
  /\ Len(stdout) = 1

----------------------------------------------------------------------------
(* C5 *)

FatalReceived == {i \in 1..Len(received) : ~Recoverable(received[i])}
CompileEnded == Succeeded("compile") \/ Failed("compile")

\* C5: once the handler has received a diagnostic that is neither Warning nor
\* Information, compileSource does not return a result: it ends by throwing,
\* and the dump of the capture list holds that diagnostic.
C5_FatalMeansThrow ==
  FatalReceived # {} =>
    /\ ~Succeeded("compile")
    /\ pc \in {"prepackSources", "compileSourceCatch", "catch", "exited"}
    /\ CompileEnded =>
         /\ pc \in {"catch", "exited"}
         /\ \A i \in FatalReceived :
              [kind |-> "captured", diag |-> received[i]] \in Range(stderr)

C5_Witness ==
  /\ pc = "catch"
  /\ Len(received) = 2
  /\ received[1].severity = "Warning"
  /\ received[2].severity = "RecoverableError"
  /\ Failed("compile")

----------------------------------------------------------------------------
(* C6 *)

ExpectedDump == [i \in 1..Len(received) |-> [kind |-> "captured", diag |-> received[i]]]
SomeStageFailed == \E s \in Range(stages) : ~s.ok

\* C6: when the compiler throws, stderr gets the captured diagnostics in capture
\* order, then the trace, and then the process exits with code 1; the exit code
\* is 1 exactly when some stage failed and 0 otherwise.
C6_FailureReport ==
  /\ pc # "exited" => exitCode = -1
  /\ (Failed("compile") /\ pc = "catch") => stderr = ExpectedDump
  /\ pc = "exited" =>
       /\ exitCode \in {0, 1}
       /\ exitCode = 1 <=> SomeStageFailed
       /\ Failed("compile") =>
            /\ stderr = ExpectedDump \o <<[kind |-> "trace", error |-> e]>>
            /\ exitCode = 1

C6_Witness ==
  /\ pc = "exited"
  /\ Failed("compile")
  /\ Len(received) = 2
  /\ received[1] # received[2]
  /\ Len(stderr) = 3

----------------------------------------------------------------------------
(* C7 *)

IsComponentsHeader(l) == l.kind = "header" /\ l.text = "=== Status ==="
IsOptimizedComponents(l) == l.kind = "summary" /\ l.label = "Optimized Components"

\* C7: the summary has one line per tracked entry, in insertion order, with a
\* check mark exactly for the names met in the tree; a name never met is still
\* "missing"; without a component list the mapping is empty and neither the
\* entry lines nor "Optimized Components" are printed.
C7_Summary ==
  /\ ~componentsFile.exists =>
       /\ components = <<>>
       /\ \A l \in Range(stdout) :
            ~IsStatusLine(l) /\ ~IsComponentsHeader(l) /\ ~IsOptimizedComponents(l)
  /\ pc \in {"done", "exited"} /\ Succeeded("summary") =>
       LET lines == StatusLinesOf(stdout)
       IN /\ Len(lines) = Len(ListedNames)
          /\ Len(components) = Len(ListedNames)
          /\ \A i \in 1..Len(ListedNames) :
               /\ lines[i].name = ListedNames[i]
               /\ lines[i].mark \in {"check", "cross"}
               /\ lines[i].mark = "check" <=> ListedNames[i] \in LeafNames(Root)
               /\ ListedNames[i] \notin LeafNames(Root) =>
                    components[i].value = Missing

C7_Witness ==
  /\ pc = "done"
  /\ Len(StatusLinesOf(stdout)) = 2
  /\ StatusLinesOf(stdout)[1].mark = "cross"
  /\ StatusLinesOf(stdout)[2].mark = "check"

----------------------------------------------------------------------------
(* C8 *)

\* C8: every printed node line has twice as many leading spaces as there are
\* `children` links between the root and its node.
C8_IndentTwicePerLevel ==
  LET lines == NodeLines(stdout)
      leaves == LeavesInOrder(Root, 0)
  IN /\ Len(lines) <= Len(leaves)
     /\ \A i \in 1..Len(lines) :
          /\ lines[i].name = leaves[i].name
          /\ lines[i].pad = 2 * leaves[i].links

C8_Witness ==
  /\ Root.type = "array"
  /\ Len(Root.elems) = 2
  /\ Len(NodeLines(stdout)) = 3
  /\ NodeLines(stdout)[1].pad = 0
  /\ NodeLines(stdout)[2].pad = 2
  /\ NodeLines(stdout)[3].pad = 0

----------------------------------------------------------------------------
(* C9 *)

\* C9: on every tree whose `children` fields are a leaf record, a list, or
\* absent, the walk raises no error and, when it has returned, has printed one
\* line per leaf record, in document order.
C9_WalkNeverThrows ==
  Root.type # "undefined" =>
    /\ ~Failed("render")
    /\ WalkReturned =>
         LET lines == NodeLines(stdout)
             leaves == LeavesInOrder(Root, 0)
         IN /\ Len(lines) = Len(leaves)
            /\ \A i \in 1..Len(lines) :
                 /\ lines[i].name = leaves[i].name
                 /\ lines[i].status = ToLowerCase(leaves[i].status)

----------------------------------------------------------------------------
(* C10 *)

StageOrder ==
  <<"list-load", "input-read", "compile", "output-write", "render", "summary">>
IsReportLine(l) == l.kind # "diag"

\* C10: the stages run in the fixed order, each after the success of the one
\* before, and nothing runs after a failure; the output file keeps its previous
\* contents when the input read or the compile fails, and no report or summary
\* line is printed when the compile or the output write fails.
C10_StrictSequence ==
  /\ Len(stages) <= Len(StageOrder)
  /\ \A i \in 1..Len(stages) :
       /\ stages[i].stage = StageOrder[i]
       /\ i < Len(stages) => stages[i].ok
  /\ SomeStageFailed => pc \in {"catch", "exited"}
  /\ (Failed("list-load") \/ Failed("input-read") \/ Failed("compile")) =>
       outputFile = OldOutput
  /\ ~Succeeded("output-write") => \A l \in Range(stdout) : ~IsReportLine(l)
  /\ ~Succeeded("render") =>
       \A l \in Range(stdout) : l.kind \notin {"status", "summary"}

C10_Witness ==
  /\ pc = "exited"
  /\ Failed("compile")
  /\ Len(stdout) = 1
  /\ outputFile = OldOutput

====
